---- MODULE Spec2Model ----
(***************************************************************************)
(* Model of the glTF 2.0 export controller                                 *)
(* (addons/io_scene_gltf2/blender/exp/gltf2_blender_export.py).            *)
(*                                                                         *)
(* Two specifications are given:                                           *)
(*   SpecFix  applies the pure function __fix_json to every document tree  *)
(*            of at most MaxNodes nodes, once and then a second time;      *)
(*   Spec     runs save() stage by stage, with callbacks and hooks that    *)
(*            may change the settings or raise.                            *)
(***************************************************************************)
EXTENDS Integers, Sequences, FiniteSets, TLC

(***************************************************************************)
(* Bounds of the model.                                                    *)
(***************************************************************************)
\* largest number of nodes (scalars and collections) of a document tree
MaxNodes == 4
\* largest timeline position save() may start at
MaxFrame == 1
\* largest number of registered pre-export, and of post-export, callbacks
MaxCallbacks == 2
\* largest number of scenes the gatherer returns
MaxScenes == 2
\* largest number of entries of the traceback of an exception
MaxTraceback == 2
\* largest quantization level among the gltfpack options
MaxBits == 2

(***************************************************************************)
(* Document trees.  A node is a record [t, n, c]: t is the Python type of  *)
(* the value, n its number (for int; for float the value counted in        *)
(* halves, so that 10 is 5.0 and 11 is 5.5), c its children as a sequence  *)
(* of entries [k, x] in insertion order (k is the key in a dict, "" in a   *)
(* list).  JSON numbers are finite, so no NaN or infinity is modelled.     *)
(***************************************************************************)
None == [t |-> "NoneType", n |-> 0, c |-> <<>>]
IntVal(i) == [t |-> "int", n |-> i, c |-> <<>>]
FloatVal(h) == [t |-> "float", n |-> h, c |-> <<>>]
StrVal == [t |-> "str", n |-> 0, c |-> <<>>]
DictVal(items) == [t |-> "dict", n |-> 0, c |-> items]
ListVal(items) == [t |-> "list", n |-> 0, c |-> items]
Entry(key, value) == [k |-> key, x |-> value]

\* the keys a mapping of the model may use
Keys == {"extras", "KHR_materials_unlit", "name"}
\* the scalars of the model: null, 5, 5.0, 5.5, -1.5 and a string
Scalars == {None, IntVal(5), FloatVal(10), FloatVal(11), FloatVal(-3), StrVal}

\* int(obj) of a float given in halves: truncation towards zero
int(h) == IF h >= 0 THEN h \div 2 ELSE -((-h) \div 2)

\* int(obj) == obj for a float given in halves
FloatIsNeverInt(h) == FALSE
FloatIsInt(h) == 2 * int(h) = h

\* isinstance(value, dict) or isinstance(value, list)) and len(value) == 0
IsEmptyDictOnly(value) == value.t = "dict" /\ Len(value.c) = 0
is_empty_collection(value) == (value.t = "dict" \/ value.t = "list") /\ Len(value.c) = 0

allowed_empty_collections == {"KHR_materials_unlit"}

ShouldIncludeNone(key, value) ==
    IF is_empty_collection(value) /\ key \notin allowed_empty_collections THEN FALSE
    ELSE TRUE
ShouldIncludeNoAllowList(key, value) ==
    IF value = None THEN FALSE
    ELSE IF is_empty_collection(value) THEN FALSE
    ELSE TRUE
should_include_json_value(key, value) ==
    IF value = None THEN FALSE
    ELSE IF is_empty_collection(value) /\ key \notin allowed_empty_collections THEN FALSE
    ELSE TRUE

\* the test of line 116: an extras entry that is copied as it is
ExtrasNeverVerbatim(key, value) == FALSE
is_verbatim_extras(key, value) == key = "extras" /\ value # None

RECURSIVE fix_json(_)
fix_json(obj) ==
    IF obj.t = "dict" THEN
        LET kept == SelectSeq(obj.c, LAMBDA e :
                        is_verbatim_extras(e.k, e.x) \/ should_include_json_value(e.k, e.x))
        IN  DictVal([i \in 1..Len(kept) |->
                IF is_verbatim_extras(kept[i].k, kept[i].x) THEN kept[i]
                ELSE Entry(kept[i].k, fix_json(kept[i].x))])
    ELSE IF obj.t = "list" THEN
        ListVal([i \in 1..Len(obj.c) |-> Entry("", fix_json(obj.c[i].x))])
    ELSE IF obj.t = "float" THEN
        IF FloatIsInt(obj.n) THEN IntVal(int(obj.n)) ELSE obj
    ELSE obj

(***************************************************************************)
(* The document trees of at most MaxNodes nodes.  A document starts as one *)
(* value and grows one field or element at a time, as the exporter and the *)
(* add-ons build it before __fix_json reads it.                            *)
(***************************************************************************)
\* what a new field or element holds: a scalar or an empty collection
Leaves == Scalars \cup {DictVal(<<>>), ListVal(<<>>)}

RECURSIVE Size(_), SizeOfEntries(_)
SizeOfEntries(items) ==
    IF items = <<>> THEN 0 ELSE Size(Head(items).x) + SizeOfEntries(Tail(items))
Size(node) == 1 + SizeOfEntries(node.c)

KeysOf(node) == {node.c[i].k : i \in 1..Len(node.c)}

\* the trees that have one more leaf than node, somewhere below it
RECURSIVE Extensions(_)
Extensions(node) ==
    LET appended ==
            IF node.t = "dict"
            THEN {[node EXCEPT !.c = Append(@, Entry(key, leaf))] :
                     key \in Keys \ KeysOf(node), leaf \in Leaves}
            ELSE IF node.t = "list"
            THEN {[node EXCEPT !.c = Append(@, Entry("", leaf))] : leaf \in Leaves}
            ELSE {}
        below ==
            UNION {{[node EXCEPT !.c[i].x = sub] : sub \in Extensions(node.c[i].x)} :
                      i \in 1..Len(node.c)}
    IN  appended \cup below

VARIABLES obj, fixed, refixed, fpc

fixvars == <<obj, fixed, refixed, fpc>>

(***************************************************************************)
(* save(): the state of the host, of the settings and of one export.       *)
(***************************************************************************)
VARIABLES
    frame,                  \* bpy.context.scene.frame_current
    mode,                   \* mode of the active object, "NONE" without one
    export_settings,        \* the settings the callbacks and hooks may change
    pre_export_callbacks,   \* export_settings["pre_export_callbacks"]
    post_export_callbacks,  \* export_settings["post_export_callbacks"]
    pc,                     \* the statement save() is at
    i,                      \* position of the callback loop save() is in
    original_frame,         \* local of save()
    glTF,                   \* exporter.glTF.to_dict()
    json,                   \* local of save(): the canonical document
    finalize_calls,         \* the calls of exporter.finalize_buffer
    written,                \* save_gltf has written the artifact
    raised,                 \* the stage whose exception left save(), or "none"
    exc,                    \* the class of that exception
    log,                    \* what print_console was given
    trace,                  \* the stages run so far, in order
    current_frame_at_entry, \* export_settings['gltf_current_frame'] as save() is called
    save_format,            \* export_settings['gltf_format'] as save_gltf is given it
    tb_info,                \* traceback.extract_tb(tb) of the exception __write_file caught
    gathered,               \* what gather_gltf2 returns in this export
    hook_edit,              \* what the post-gather hook does to the scene list
    scenes,                 \* local of __gather_gltf
    active_scene_idx,       \* local of __gather_gltf
    added_scenes,           \* the calls of exporter.add_scene
    gltfpack_settings,      \* export_settings: gltf_filepath and gltf_gltfpack_*
    argv                    \* the argument list subprocess.run was given

savevars == <<frame, mode, export_settings, pre_export_callbacks, post_export_callbacks,
              pc, i, original_frame, glTF, json, finalize_calls, written, raised, exc,
              log, trace, current_frame_at_entry, save_format, tb_info, gathered,
              hook_edit, scenes, active_scene_idx, added_scenes, gltfpack_settings, argv>>
\* what of it each stage of save() leaves alone unless it says otherwise
envvars == <<current_frame_at_entry, gathered, hook_edit, gltfpack_settings>>
scenevars == <<scenes, active_scene_idx, added_scenes>>
writevars == <<save_format, tb_info, argv>>
vars == <<fixvars, savevars>>

Formats == {"GLB", "GLTF_EMBEDDED", "GLTF_SEPARATE"}
SettingsSet == [gltf_current_frame : BOOLEAN,
                gltf_format : Formats,
                gltf_draco_mesh_compression : BOOLEAN,
                gltf_use_gltfpack : BOOLEAN]
\* export_settings['gltf_binaryfilename']
gltf_binaryfilename == "scene.bin"

\* the documents an export assembles: one with null and empty entries and
\* an integral float, one that is canonical already
Documents == {DictVal(<<Entry("name", None),
                        Entry("extras", DictVal(<<>>)),
                        Entry("KHR_materials_unlit", FloatVal(10))>>),
              DictVal(<<Entry("name", StrVal)>>)}
AssembledDocument == DictVal(<<Entry("name", StrVal)>>)

Ev(name, n) == <<name, n>>
Callbacks(n) == [j \in 1..n |-> j]

\* the scene lists of the model: scene j is the j-th the gatherer found
Scenes(n) == [j \in 1..n |-> j]
\* what gather_gltf2 may return: some scenes, one of them the active one
\* (active_scene_idx counts from 0)
GatherResults == {[scenes |-> Scenes(n), active_scene_idx |-> a] :
                     n \in 1..MaxScenes, a \in 0..(MaxScenes - 1)}
                 \ {r \in [scenes : {Scenes(n) : n \in 1..MaxScenes},
                           active_scene_idx : 0..(MaxScenes - 1)] :
                       r.active_scene_idx >= Len(r.scenes)}
\* what the post-gather hook may do to the list it is given
HookEdits == {"keep", "pop", "clear", "append", "insert"}
EditScenes(edit, list) ==
    CASE edit = "keep" -> list
      [] edit = "pop" -> IF list = <<>> THEN list ELSE SubSeq(list, 1, Len(list) - 1)
      [] edit = "clear" -> <<>>
      [] edit = "append" -> Append(list, Len(list) + 1)
      [] OTHER -> <<0>> \o list

\* export_settings['gltf_filepath'], as os.path splits it
FilePaths == {[dir |-> "out", base |-> "scene", ext |-> ".glb"],
              [dir |-> "", base |-> "scene", ext |-> ".gltf"]}
PositionFormats == {"Integer", "Normalized", "Floating-point"}
\* the gltfpack settings; gltf_gltfpack_si is a float, counted in halves
PackSettings == [gltfpack_path_ui : {"tools"},
                 gltf_filepath : FilePaths,
                 gltf_gltfpack_tc : BOOLEAN,
                 gltf_gltfpack_tq : 1..MaxBits,
                 gltf_gltfpack_si : 1..2,
                 gltf_gltfpack_sa : BOOLEAN,
                 gltf_gltfpack_slb : BOOLEAN,
                 gltf_gltfpack_vp : 1..MaxBits,
                 gltf_gltfpack_vt : 1..MaxBits,
                 gltf_gltfpack_vn : 1..MaxBits,
                 gltf_gltfpack_vc : 1..MaxBits,
                 gltf_gltfpack_vpi : PositionFormats,
                 gltf_gltfpack_noq : BOOLEAN]
DefaultPackSettings == [gltfpack_path_ui |-> "tools",
                        gltf_filepath |-> [dir |-> "out", base |-> "scene", ext |-> ".glb"],
                        gltf_gltfpack_tc |-> TRUE,
                        gltf_gltfpack_tq |-> 1,
                        gltf_gltfpack_si |-> 2,
                        gltf_gltfpack_sa |-> FALSE,
                        gltf_gltfpack_slb |-> FALSE,
                        gltf_gltfpack_vp |-> 1,
                        gltf_gltfpack_vt |-> 1,
                        gltf_gltfpack_vn |-> 1,
                        gltf_gltfpack_vc |-> 1,
                        gltf_gltfpack_vpi |-> "Integer",
                        gltf_gltfpack_noq |-> FALSE]

\* save() has not started
InitRun ==
    /\ pc = "save"
    /\ i = 1
    /\ original_frame = 0
    /\ glTF = None
    /\ json = None
    /\ finalize_calls = <<>>
    /\ written = FALSE
    /\ raised = "none"
    /\ exc = "none"
    /\ log = <<>>
    /\ trace = <<>>
    /\ current_frame_at_entry = export_settings.gltf_current_frame
    /\ save_format = "none"
    /\ tb_info = <<>>
    /\ scenes = <<>>
    /\ active_scene_idx = 0
    /\ added_scenes = <<>>
    /\ argv = <<>>

InitSave ==
    /\ frame \in 0..MaxFrame
    /\ mode \in {"NONE", "OBJECT", "EDIT"}
    /\ export_settings \in SettingsSet
    /\ pre_export_callbacks \in {Callbacks(n) : n \in 0..MaxCallbacks}
    /\ post_export_callbacks \in {Callbacks(n) : n \in 0..MaxCallbacks}
    /\ gathered = [scenes |-> Scenes(1), active_scene_idx |-> 0]
    /\ hook_edit = "keep"
    /\ gltfpack_settings = DefaultPackSettings
    /\ InitRun

\* an exception leaves save(): nothing in save() or __export catches it
Raise(stage, class) ==
    /\ pc' = "raised"
    /\ raised' = stage
    /\ exc' = class

\* what a hook called through export_user_extensions may do
HookOutcomes == {"returns", "raises"}

\* lines 231-234: the start notification
NotifyStartMissing == <<>>
notify_start == <<Ev("notify_start", 0)>>

\* lines 89-90: the calls of exporter.add_scene
AddScenesIndexFromOne(list, idx) ==
    [j \in 1..Len(list) |-> [scene |-> list[j], active |-> (j = idx)]]
add_scenes(list, idx) ==
    [j \in 1..Len(list) |-> [scene |-> list[j], active |-> (j - 1 = idx)]]

\* line 217: the repack setting as __write_file reads it
UseGltfpackAlways(settings) == TRUE
use_gltfpack(settings) == settings.gltf_use_gltfpack = TRUE

\* a traceback of n entries
Traceback(n) ==
    [j \in 1..n |-> [filename |-> "gltf2_io_export.py", line |-> 10 * j,
                     func |-> "save_gltf", text |-> "assert ok"]]
\* lines 223-227: what __write_file logs for an AssertionError
AssertionLogMessageOnly(tb) == <<<<"ERROR", "str(e)">>>>
assertion_log(tb) ==
    [j \in 1..Len(tb) |->
        <<"ERROR", "An error occurred on line " \o ToString(tb[j].line)
                      \o " in statement " \o tb[j].text>>]
      \o <<<<"ERROR", "str(e)">>>>

\* os.path.join of two parts
Join(a, b) == IF a = "" THEN b ELSE a \o "/" \o b
\* f"{x}" of a float counted in halves
FormatFloat(h) == ToString(h \div 2) \o (IF h % 2 = 0 THEN ".0" ELSE ".5")
Flag(toggle, name) == IF toggle THEN <<name>> ELSE <<>>

\* lines 159-160: the input and the output file of gltfpack
gltf_input_file_path(st) ==
    Join(st.gltf_filepath.dir, st.gltf_filepath.base \o st.gltf_filepath.ext)
gltf_output_file_path(st) ==
    Join(Join(st.gltf_filepath.dir, "gltfpacked"),
         st.gltf_filepath.base \o st.gltf_filepath.ext)

\* lines 162-197: the options of gltfpack
gltfpack_options(st) ==
    Flag(st.gltf_gltfpack_tc, "-tc")
      \o <<"-tq", ToString(st.gltf_gltfpack_tq)>>
      \o <<"-si", FormatFloat(st.gltf_gltfpack_si)>>
      \o Flag(st.gltf_gltfpack_sa, "-sa")
      \o Flag(st.gltf_gltfpack_slb, "-slb")
      \o <<"-vp", ToString(st.gltf_gltfpack_vp)>>
      \o <<"-vt", ToString(st.gltf_gltfpack_vt)>>
      \o <<"-vn", ToString(st.gltf_gltfpack_vn)>>
      \o <<"-vc", ToString(st.gltf_gltfpack_vc)>>
      \o (CASE st.gltf_gltfpack_vpi = "Integer" -> <<"-vpi">>
            [] st.gltf_gltfpack_vpi = "Normalized" -> <<"-vpn">>
            [] st.gltf_gltfpack_vpi = "Floating-point" -> <<"-vpf">>
            [] OTHER -> <<>>)
      \o Flag(st.gltf_gltfpack_noq, "-noq")
\* lines 199-203
gltfpack_parameters(st) ==
    <<"-i", gltf_input_file_path(st), "-o", gltf_output_file_path(st)>>

\* line 206: the argument list of subprocess.run
GltfpackArgvParametersFirst(st) ==
    <<Join(st.gltfpack_path_ui, "gltfpack")>> \o gltfpack_parameters(st)
      \o gltfpack_options(st)
gltfpack_argv(st) ==
    <<Join(st.gltfpack_path_ui, "gltfpack")>> \o gltfpack_options(st)
      \o gltfpack_parameters(st)

\* the finalization of each output mode
FinalizationOf(format) ==
    CASE format = "GLB" -> [is_glb |-> TRUE, binary_filename |-> "None"]
      [] format = "GLTF_EMBEDDED" -> [is_glb |-> FALSE, binary_filename |-> "None"]
      [] OTHER -> [is_glb |-> FALSE, binary_filename |-> gltf_binaryfilename]

\* line 39: the timeline is forced unless the settings ask for the current frame
ForcesFrameNever(settings) == FALSE
forces_frame(settings) == ~settings.gltf_current_frame

\* lines 34-43: object mode, capture of the frame, frame 0, start notification
SaveEnter ==
    /\ pc = "save"
    /\ mode' = IF mode # "NONE" /\ mode # "OBJECT" THEN "OBJECT" ELSE mode
    /\ original_frame' = frame
    /\ frame' = IF forces_frame(export_settings) THEN 0 ELSE frame
    /\ trace' = trace
                  \o (IF forces_frame(export_settings)
                      THEN <<Ev("frame_set", 0)>> ELSE <<>>)
                  \o notify_start
    /\ log' = Append(log, <<"INFO", "Starting glTF 2.0 export">>)
    /\ i' = 1
    /\ pc' = IF pre_export_callbacks = <<>> THEN "gather" ELSE "pre_export_callback"
    /\ UNCHANGED <<export_settings, pre_export_callbacks, post_export_callbacks, glTF,
                   json, finalize_calls, written, raised, exc>>
    /\ UNCHANGED <<envvars, scenevars, writevars>>
    /\ UNCHANGED fixvars

\* lines 45-46: one pre-export callback; it may change the settings or raise
PreExportCallbackSwallowed ==
    /\ pc = "pre_export_callback"
    /\ trace' = Append(trace, Ev("pre_export_callback", pre_export_callbacks[i]))
    /\ \/ /\ export_settings' \in SettingsSet
          /\ UNCHANGED <<raised, exc>>
       \/ /\ raised' = "pre_export_callback"
          /\ exc' = "Exception"
          /\ UNCHANGED export_settings
    /\ i' = IF i = Len(pre_export_callbacks) THEN 1 ELSE i + 1
    /\ pc' = IF i = Len(pre_export_callbacks) THEN "gather" ELSE pc
    /\ UNCHANGED <<frame, mode, pre_export_callbacks, post_export_callbacks,
                   original_frame, glTF, json, finalize_calls, written, log>>
    /\ UNCHANGED <<envvars, scenevars, writevars>>
    /\ UNCHANGED fixvars
PreExportCallback ==
    /\ pc = "pre_export_callback"
    /\ trace' = Append(trace, Ev("pre_export_callback", pre_export_callbacks[i]))
    /\ \/ /\ export_settings' \in SettingsSet
          /\ i' = IF i = Len(pre_export_callbacks) THEN 1 ELSE i + 1
          /\ pc' = IF i = Len(pre_export_callbacks) THEN "gather" ELSE pc
          /\ UNCHANGED <<raised, exc>>
       \/ /\ Raise("pre_export_callback", "Exception")
          /\ UNCHANGED <<export_settings, i>>
    /\ UNCHANGED <<frame, mode, pre_export_callbacks, post_export_callbacks,
                   original_frame, glTF, json, finalize_calls, written, log>>
    /\ UNCHANGED <<envvars, scenevars, writevars>>
    /\ UNCHANGED fixvars

\* lines 64, 79-85: the exporter, the gatherer, the unused skins, and the
\* mesh compression if the settings enable it
Gather ==
    /\ pc = "gather"
    /\ \/ /\ trace' = trace
                        \o <<Ev("gather_gltf2", 0), Ev("get_unused_skins", 0)>>
                        \o (IF export_settings.gltf_draco_mesh_compression
                            THEN <<Ev("encode_scene_primitives", 0),
                                   Ev("add_draco_extension", 0)>>
                            ELSE <<>>)
          /\ scenes' = gathered.scenes
          /\ active_scene_idx' = gathered.active_scene_idx
          /\ pc' = "gather_gltf_hook"
          /\ UNCHANGED <<raised, exc>>
       \/ /\ trace' = Append(trace, Ev("gather_gltf2", 0))
          /\ Raise("gather_gltf2", "Exception")
          /\ UNCHANGED <<scenes, active_scene_idx>>
    /\ UNCHANGED <<frame, mode, export_settings, pre_export_callbacks,
                   post_export_callbacks, i, original_frame, glTF, json, finalize_calls,
                   written, log>>
    /\ UNCHANGED <<envvars, added_scenes, writevars>>
    /\ UNCHANGED fixvars

\* line 87: the post-gather hook; it may change the settings or raise
GatherHook ==
    /\ pc = "gather_gltf_hook"
    /\ trace' = Append(trace, Ev("gather_gltf_hook", 0))
    /\ \E outcome \in HookOutcomes :
          IF outcome = "returns"
          THEN /\ export_settings' \in SettingsSet
               /\ scenes' = EditScenes(hook_edit, scenes)
               /\ pc' = "assemble"
               /\ UNCHANGED <<raised, exc>>
          ELSE /\ Raise("gather_gltf_hook", "Exception")
               /\ UNCHANGED <<export_settings, scenes>>
    /\ UNCHANGED <<frame, mode, pre_export_callbacks, post_export_callbacks, i,
                   original_frame, glTF, json, finalize_calls, written, log>>
    /\ UNCHANGED <<envvars, active_scene_idx, added_scenes, writevars>>
    /\ UNCHANGED fixvars

\* lines 89-93: the scenes, then the animations, then the unused skins
Assemble ==
    /\ pc = "assemble"
    /\ trace' = trace \o <<Ev("add_scene", 0), Ev("add_animation", 0),
                          Ev("traverse_unused_skins", 0)>>
    /\ added_scenes' = add_scenes(scenes, active_scene_idx)
    /\ glTF' = AssembledDocument
    /\ pc' = "create_buffer"
    /\ UNCHANGED <<frame, mode, export_settings, pre_export_callbacks,
                   post_export_callbacks, i, original_frame, json, finalize_calls,
                   written, raised, exc, log>>
    /\ UNCHANGED <<envvars, scenes, active_scene_idx, writevars>>
    /\ UNCHANGED fixvars

\* lines 96-107: the calls of finalize_buffer for a format
FinalizeCall(is_glb, binary_filename) ==
    [is_glb |-> is_glb, binary_filename |-> binary_filename]
CreateBufferFallThrough(format) ==
    (IF format = "GLB" THEN <<FinalizeCall(TRUE, "None")>> ELSE <<>>)
      \o (IF format = "GLTF_EMBEDDED" THEN <<FinalizeCall(FALSE, "None")>>
          ELSE <<FinalizeCall(FALSE, gltf_binaryfilename)>>)
create_buffer(format) ==
    IF format = "GLB" THEN <<FinalizeCall(TRUE, "None")>>
    ELSE IF format = "GLTF_EMBEDDED" THEN <<FinalizeCall(FALSE, "None")>>
    ELSE <<FinalizeCall(FALSE, gltf_binaryfilename)>>

\* lines 66-67: __create_buffer, then the images
CreateBuffer ==
    /\ pc = "create_buffer"
    /\ finalize_calls' = finalize_calls \o create_buffer(export_settings.gltf_format)
    /\ trace' = trace
                  \o [j \in 1..Len(create_buffer(export_settings.gltf_format)) |->
                         Ev("finalize_buffer", 0)]
                  \o <<Ev("finalize_images", 0)>>
    /\ pc' = "gather_gltf_extensions_hook"
    /\ UNCHANGED <<frame, mode, export_settings, pre_export_callbacks,
                   post_export_callbacks, i, original_frame, glTF, json, written,
                   raised, exc, log>>
    /\ UNCHANGED <<envvars, scenevars, writevars>>
    /\ UNCHANGED fixvars

\* line 69: the post-build hook; it may edit the document, change the
\* settings, or raise
ExtensionsHook ==
    /\ pc = "gather_gltf_extensions_hook"
    /\ trace' = Append(trace, Ev("gather_gltf_extensions_hook", 0))
    /\ \E outcome \in HookOutcomes :
          IF outcome = "returns"
          THEN /\ export_settings' \in SettingsSet
               /\ glTF' \in Documents
               /\ pc' = "traverse_extensions"
               /\ UNCHANGED <<raised, exc>>
          ELSE /\ Raise("gather_gltf_extensions_hook", "Exception")
               /\ UNCHANGED <<export_settings, glTF>>
    /\ UNCHANGED <<frame, mode, pre_export_callbacks, post_export_callbacks, i,
                   original_frame, json, finalize_calls, written, log>>
    /\ UNCHANGED <<envvars, scenevars, writevars>>
    /\ UNCHANGED fixvars

\* lines 48-53: what save() does once __export has returned
SkipPostExportCallbacks == "write_file"
SkipSinglePostExportCallback ==
    IF Len(post_export_callbacks) <= 1 THEN "write_file" ELSE "post_export_callback"
AfterExport == IF post_export_callbacks = <<>> THEN "write_file" ELSE "post_export_callback"

\* lines 70-75: traverse_extensions, then __fix_json of the document
Canonicalize ==
    /\ pc = "traverse_extensions"
    /\ trace' = trace \o <<Ev("traverse_extensions", 0), Ev("fix_json", 0)>>
    /\ json' = fix_json(glTF)
    /\ pc' = AfterExport
    /\ UNCHANGED <<frame, mode, export_settings, pre_export_callbacks,
                   post_export_callbacks, i, original_frame, glTF, finalize_calls,
                   written, raised, exc, log>>
    /\ UNCHANGED <<envvars, scenevars, writevars>>
    /\ UNCHANGED fixvars

\* lines 51-52: one post-export callback; it may change the settings or raise
PostExportCallback ==
    /\ pc = "post_export_callback"
    /\ trace' = Append(trace, Ev("post_export_callback", post_export_callbacks[i]))
    /\ \/ /\ export_settings' \in SettingsSet
          /\ i' = IF i = Len(post_export_callbacks) THEN 1 ELSE i + 1
          /\ pc' = IF i = Len(post_export_callbacks) THEN "write_file" ELSE pc
          /\ UNCHANGED <<raised, exc>>
       \/ /\ Raise("post_export_callback", "Exception")
          /\ UNCHANGED <<export_settings, i>>
    /\ UNCHANGED <<frame, mode, pre_export_callbacks, post_export_callbacks,
                   original_frame, glTF, json, finalize_calls, written, log>>
    /\ UNCHANGED <<envvars, scenevars, writevars>>
    /\ UNCHANGED fixvars

\* lines 211-216, 220-228: save_gltf writes the artifact, or raises; an
\* AssertionError is logged and raised again, any other exception just leaves
WriteFile ==
    /\ pc = "write_file"
    /\ trace' = Append(trace, Ev("save_gltf", 0))
    /\ save_format' = export_settings.gltf_format
    /\ \/ /\ written' = TRUE
          /\ pc' = IF use_gltfpack(export_settings) THEN "gltfpack" ELSE "notify_end"
          /\ UNCHANGED <<raised, exc, log, tb_info>>
       \/ /\ Raise("save_gltf", "AssertionError")
          /\ tb_info' \in {Traceback(n) : n \in 1..MaxTraceback}
          /\ log' = log \o assertion_log(tb_info')
          /\ UNCHANGED written
       \/ /\ Raise("save_gltf", "Exception")
          /\ UNCHANGED <<written, log, tb_info>>
    /\ UNCHANGED <<frame, mode, export_settings, pre_export_callbacks,
                   post_export_callbacks, i, original_frame, glTF, json, finalize_calls>>
    /\ UNCHANGED <<envvars, scenevars, argv>>
    /\ UNCHANGED fixvars

\* lines 146-208, 217-218: the output directory is made if it is missing,
\* then gltfpack is run; only its non-zero exit is caught
Gltfpack ==
    /\ pc = "gltfpack"
    /\ \/ \E exists \in BOOLEAN :
          /\ trace' = trace \o (IF exists THEN <<>> ELSE <<Ev("makedirs", 0)>>)
                            \o <<Ev("gltfpack", 0)>>
          /\ argv' = gltfpack_argv(gltfpack_settings)
          /\ \/ /\ pc' = "notify_end"
                /\ UNCHANGED <<raised, exc, log>>
             \/ /\ pc' = "notify_end"
                /\ log' = Append(log, <<"ERROR", "Calling gltfpack was not successful">>)
                /\ UNCHANGED <<raised, exc>>
             \/ /\ Raise("gltfpack", "FileNotFoundError")
                /\ UNCHANGED log
       \/ /\ trace' = Append(trace, Ev("makedirs", 0))
          /\ Raise("gltfpack", "OSError")
          /\ UNCHANGED <<log, argv>>
    /\ UNCHANGED <<frame, mode, export_settings, pre_export_callbacks,
                   post_export_callbacks, i, original_frame, glTF, json, finalize_calls,
                   written>>
    /\ UNCHANGED <<envvars, scenevars, save_format, tb_info>>
    /\ UNCHANGED fixvars

\* lines 55-60: end notification, restore of the frame, return {'FINISHED'}
SaveFinish ==
    /\ pc = "notify_end"
    /\ log' = Append(log, <<"INFO", "Finished glTF 2.0 export in {} s">>)
    /\ frame' = IF ~export_settings.gltf_current_frame THEN original_frame ELSE frame
    /\ trace' = trace
                  \o <<Ev("notify_end", 0)>>
                  \o (IF ~export_settings.gltf_current_frame
                      THEN <<Ev("frame_set", original_frame)>> ELSE <<>>)
    /\ pc' = "FINISHED"
    /\ UNCHANGED <<mode, export_settings, pre_export_callbacks, post_export_callbacks,
                   i, original_frame, glTF, json, finalize_calls, written, raised, exc>>
    /\ UNCHANGED <<envvars, scenevars, writevars>>
    /\ UNCHANGED fixvars

Next ==
    \/ SaveEnter
    \/ PreExportCallback
    \/ Gather
    \/ GatherHook
    \/ Assemble
    \/ CreateBuffer
    \/ ExtensionsHook
    \/ Canonicalize
    \/ PostExportCallback
    \/ WriteFile
    \/ Gltfpack
    \/ SaveFinish

\* no document is being canonicalized on its own while save() runs
InitFixIdle == obj = None /\ fixed = None /\ refixed = None /\ fpc = "idle"

Init == InitSave /\ InitFixIdle

Spec == Init /\ [][Next]_vars

\* save() for every result of the gatherer and every edit of the post-gather
\* hook, from frame 0 in object mode with one callback in each list
InitScenes ==
    /\ frame = 0
    /\ mode = "OBJECT"
    /\ export_settings \in SettingsSet
    /\ pre_export_callbacks = Callbacks(1)
    /\ post_export_callbacks = Callbacks(1)
    /\ gathered \in GatherResults
    /\ hook_edit \in HookEdits
    /\ gltfpack_settings = DefaultPackSettings
    /\ InitRun
    /\ InitFixIdle

SpecScenes == InitScenes /\ [][Next]_vars

\* __postprocess_with_gltfpack for every value of its options: the artifact
\* is written and __write_file is about to make the call of line 218
InitPack ==
    /\ frame = 0
    /\ mode = "OBJECT"
    /\ export_settings = [gltf_current_frame |-> FALSE, gltf_format |-> "GLB",
                          gltf_draco_mesh_compression |-> FALSE,
                          gltf_use_gltfpack |-> TRUE]
    /\ pre_export_callbacks = <<>>
    /\ post_export_callbacks = <<>>
    /\ gathered = [scenes |-> Scenes(1), active_scene_idx |-> 0]
    /\ hook_edit = "keep"
    /\ gltfpack_settings \in PackSettings
    /\ pc = "gltfpack"
    /\ i = 1
    /\ original_frame = 0
    /\ glTF = None
    /\ json = None
    /\ finalize_calls = <<FinalizationOf(export_settings.gltf_format)>>
    /\ written = TRUE
    /\ raised = "none"
    /\ exc = "none"
    /\ log = <<>>
    /\ trace = <<Ev("save_gltf", 0)>>
    /\ current_frame_at_entry = FALSE
    /\ save_format = export_settings.gltf_format
    /\ tb_info = <<>>
    /\ scenes = <<>>
    /\ active_scene_idx = 0
    /\ added_scenes = <<>>
    /\ argv = <<>>
    /\ InitFixIdle

NextPack == Gltfpack \/ SaveFinish

SpecPack == InitPack /\ [][NextPack]_vars

(***************************************************************************)
(* Claims about save().                                                    *)
(***************************************************************************)
Returned == pc = "FINISHED"
Left == pc \in {"FINISHED", "raised"}
Names(events) == {events[j][1] : j \in 1..Len(events)}

\* C1: when save() returns or raises, the timeline position is the one it
\* had when save() was entered
C1_FrameRestored == Left => frame = original_frame

\* C2: once the artifact is written, no outcome of the repack step makes
\* save() raise
C2_RepackNeverRaises == written => pc # "raised"

\* the stages C8 names
StageNames == {"pre_export_callback", "gather_gltf2", "encode_scene_primitives",
               "gather_gltf_hook", "add_scene", "add_animation", "traverse_unused_skins",
               "finalize_buffer", "gather_gltf_extensions_hook", "traverse_extensions",
               "fix_json", "post_export_callback", "save_gltf"}
StagesOf(events) == SelectSeq(events, LAMBDA e : e[1] \in StageNames)
StageOrder(compressed) ==
    [j \in 1..Len(pre_export_callbacks) |->
        Ev("pre_export_callback", pre_export_callbacks[j])]
      \o <<Ev("gather_gltf2", 0)>>
      \o (IF compressed THEN <<Ev("encode_scene_primitives", 0)>> ELSE <<>>)
      \o <<Ev("gather_gltf_hook", 0), Ev("add_scene", 0), Ev("add_animation", 0),
           Ev("traverse_unused_skins", 0), Ev("finalize_buffer", 0),
           Ev("gather_gltf_extensions_hook", 0), Ev("traverse_extensions", 0),
           Ev("fix_json", 0)>>
      \o [j \in 1..Len(post_export_callbacks) |->
            Ev("post_export_callback", post_export_callbacks[j])]
      \o <<Ev("save_gltf", 0)>>

\* C8: in a run of save() that returns, the stages run once each in the order
\* pre-export callbacks (registration order), gather, mesh compression,
\* post-gather hook, scenes, animations, unused skins, buffer finalization,
\* post-build hook, traverse extensions, canonicalization, post-export
\* callbacks (registration order), write; and the mesh compression runs
\* exactly when the settings enable it as the gatherer returns
C8_StageOrder ==
    /\ [](Returned =>
            StagesOf(trace) = StageOrder("encode_scene_primitives" \in Names(trace)))
    /\ [][("gather_gltf_hook" \notin Names(trace) /\ "gather_gltf_hook" \in Names(trace'))
            \/ (pc = "gather" /\ pc' # "raised")
          => ("encode_scene_primitives" \in Names(trace')
                <=> export_settings.gltf_draco_mesh_compression)]_vars

C8_Witness ==
    /\ Returned
    /\ Len(pre_export_callbacks) = 2
    /\ Len(post_export_callbacks) = 2
    /\ "encode_scene_primitives" \in Names(trace)
    /\ trace[Len(trace) - 1] = Ev("save_gltf", 0)

HookStages == {"pre_export_callback", "gather_gltf_hook", "gather_gltf_extensions_hook",
               "post_export_callback"}

\* C9: when a pre-export callback, the post-gather hook, the post-build hook
\* or a post-export callback raises, save() raises and no later stage runs:
\* the raising stage is the last one of the run, nothing is written and the
\* repack step is not invoked
C9_HookFailureAborts ==
    raised \in HookStages =>
        /\ pc = "raised"
        /\ trace[Len(trace)][1] = raised
        /\ ~written
        /\ Names(trace) \cap {"save_gltf", "gltfpack", "notify_end"} = {}

C9_Witness ==
    /\ raised = "post_export_callback"
    /\ pc = "raised"
    /\ "fix_json" \in Names(trace)
    /\ ~written

\* C10: an export finalizes the buffers at most once, exactly once if save()
\* returns, and by the one path of the output mode the settings hold when
\* __create_buffer reads them: GLB with is_glb set, GLTF_EMBEDDED with no
\* binary file name, otherwise with the binary file name of the settings
C10_OneFinalization ==
    /\ [](Len(finalize_calls) <= 1)
    /\ [](Returned => Len(finalize_calls) = 1)
    /\ [][finalize_calls' # finalize_calls =>
            finalize_calls' = Append(finalize_calls,
                                     FinalizationOf(export_settings.gltf_format))]_vars

C10_Witness ==
    /\ Returned
    /\ finalize_calls = <<[is_glb |-> FALSE, binary_filename |-> gltf_binaryfilename]>>
    /\ export_settings.gltf_format = "GLB"

Count(name) == Len(SelectSeq(trace, LAMBDA e : e[1] = name))
FirstAt(name) == CHOOSE j \in 1..Len(trace) : trace[j][1] = name /\ \A k \in 1..(j - 1) : trace[k][1] # name
LastAt(name) == CHOOSE j \in 1..Len(trace) : trace[j][1] = name /\ \A k \in (j + 1)..Len(trace) : trace[k][1] # name

\* C11: the output mode the settings hold when save_gltf is given them is the
\* mode by which the buffers were finalized, whatever the post-build hook and
\* the post-export callbacks do to the settings in between
C11_ModeFixed ==
    "save_gltf" \in Names(trace) => finalize_calls = <<FinalizationOf(save_format)>>

\* C12: once save() has passed its entry the start notification has been
\* emitted exactly once, and before every pre-export callback; the end
\* notification is emitted at most once, exactly once when save() has
\* returned FINISHED, and never in a run that raised
C12_Notifications ==
    /\ pc # "save" =>
          /\ Count("notify_start") = 1
          /\ \A j \in 1..Len(trace) :
                trace[j][1] = "pre_export_callback" => FirstAt("notify_start") < j
    /\ Count("notify_end") <= 1
    /\ Returned => Count("notify_end") = 1
    /\ pc = "raised" => Count("notify_end") = 0

C12_Witness ==
    /\ Returned
    /\ Count("pre_export_callback") = 2
    /\ Count("notify_start") = 1
    /\ trace[Len(trace)][1] \in {"notify_end", "frame_set"}
    /\ Count("notify_end") = 1

Args(list) == {list[j] : j \in 1..Len(list)}
Occurrences(list, flag) == Cardinality({j \in 1..Len(list) : list[j] = flag})
Skip(list, flag) == IF list # <<>> /\ Head(list) = flag THEN Tail(list) ELSE list
Eat(list, n) == SubSeq(list, n + 1, Len(list))
Starts(list, prefix) ==
    Len(list) >= Len(prefix) /\ SubSeq(list, 1, Len(prefix)) = prefix
PositionFlags == {"-vpi", "-vpn", "-vpf"}
PositionFlagOf(format) ==
    CASE format = "Integer" -> "-vpi"
      [] format = "Normalized" -> "-vpn"
      [] format = "Floating-point" -> "-vpf"

\* C13: the argument list given to gltfpack is the tool followed by
\* [-tc] -tq n -si n [-sa] [-slb] -vp n -vt n -vn n -vc n {-vpi|-vpn|-vpf}
\* [-noq] -i input -o output: each optional flag is there exactly when its
\* toggle is set, exactly one position flag is there, the one of the chosen
\* encoding, and -i input -o output are the last four arguments
C13_ArgumentShape ==
    "gltfpack" \in Names(trace) =>
        LET st == gltfpack_settings
            afterTc == Skip(Tail(argv), "-tc")
            afterSi == Eat(afterTc, 4)
            afterSlb == Skip(Skip(afterSi, "-sa"), "-slb")
            afterVc == Eat(afterSlb, 8)
            afterNoq == Skip(Eat(afterVc, 1), "-noq")
        IN  /\ Head(argv) = Join(st.gltfpack_path_ui, "gltfpack")
            /\ Starts(afterTc, <<"-tq", ToString(st.gltf_gltfpack_tq),
                                 "-si", FormatFloat(st.gltf_gltfpack_si)>>)
            /\ Starts(afterSlb, <<"-vp", ToString(st.gltf_gltfpack_vp),
                                  "-vt", ToString(st.gltf_gltfpack_vt),
                                  "-vn", ToString(st.gltf_gltfpack_vn),
                                  "-vc", ToString(st.gltf_gltfpack_vc)>>)
            /\ Starts(afterVc, <<PositionFlagOf(st.gltf_gltfpack_vpi)>>)
            /\ afterNoq = <<"-i", gltf_input_file_path(st), "-o", gltf_output_file_path(st)>>
            /\ SubSeq(argv, Len(argv) - 3, Len(argv))
                 = <<"-i", gltf_input_file_path(st), "-o", gltf_output_file_path(st)>>
            /\ Cardinality({j \in 1..Len(argv) : argv[j] \in PositionFlags}) = 1
            /\ Occurrences(argv, "-tc") = (IF st.gltf_gltfpack_tc THEN 1 ELSE 0)
            /\ Occurrences(argv, "-sa") = (IF st.gltf_gltfpack_sa THEN 1 ELSE 0)
            /\ Occurrences(argv, "-slb") = (IF st.gltf_gltfpack_slb THEN 1 ELSE 0)
            /\ Occurrences(argv, "-noq") = (IF st.gltf_gltfpack_noq THEN 1 ELSE 0)

C13_Witness ==
    /\ "gltfpack" \in Names(trace)
    /\ argv = <<"tools/gltfpack", "-tc", "-tq", "2", "-si", "0.5", "-slb",
                "-vp", "1", "-vt", "2", "-vn", "1", "-vc", "2", "-vpn", "-noq",
                "-i", "scene.gltf", "-o", "gltfpacked/scene.gltf">>

\* the places of the scenes added with the active flag set
Flagged == {j \in 1..Len(added_scenes) : added_scenes[j].active}

\* C14 as stated: once the scenes are added, exactly one was added with the
\* active flag set, the one at index active_scene_idx of the sequence the
\* post-gather hook left
C14_ExactlyOneActive ==
    "add_scene" \in Names(trace) =>
        /\ active_scene_idx < Len(scenes)
        /\ Flagged = {active_scene_idx + 1}

\* C14: once the scenes are added, every scene of the sequence the
\* post-gather hook left was added, in order; at most one was added with the
\* active flag set; when active_scene_idx is an index of that sequence it is
\* exactly the scene at that index, and otherwise none is
C14_AtMostOneActive ==
    "add_scene" \in Names(trace) =>
        /\ [j \in 1..Len(added_scenes) |-> added_scenes[j].scene] = scenes
        /\ Cardinality(Flagged) <= 1
        /\ active_scene_idx < Len(scenes) => Flagged = {active_scene_idx + 1}
        /\ active_scene_idx >= Len(scenes) => Flagged = {}

C14_Witness ==
    /\ "add_scene" \in Names(trace)
    /\ hook_edit = "insert"
    /\ gathered.active_scene_idx = 1
    /\ scenes = <<0, 1, 2>>
    /\ added_scenes = <<[scene |-> 0, active |-> FALSE], [scene |-> 1, active |-> TRUE],
                        [scene |-> 2, active |-> FALSE]>>

\* __postprocess_with_gltfpack has been called
Repacked == Names(trace) \cap {"makedirs", "gltfpack"} # {}

\* C15: the repack step is invoked at most once, only after save_gltf has
\* returned, and only when the settings enable it; when save_gltf raises the
\* repack step is not invoked
C15_RepackAfterWrite ==
    /\ Count("gltfpack") <= 1
    /\ Count("makedirs") <= 1
    /\ pc = "gltfpack" \/ Repacked =>
          /\ written
          /\ Count("save_gltf") = 1
          /\ export_settings.gltf_use_gltfpack
          /\ \A j \in 1..Len(trace) :
                trace[j][1] \in {"makedirs", "gltfpack"} => FirstAt("save_gltf") < j
    /\ raised = "save_gltf" => ~written /\ ~Repacked /\ pc = "raised"

C15_Witness ==
    /\ Returned
    /\ written
    /\ Count("post_export_callback") = 1
    /\ Count("makedirs") = 1
    /\ Count("gltfpack") = 1

\* C16 as stated: in a run of save() that returns, save_gltf precedes the
\* first post-export callback and canonicalization precedes the finalization
\* of the buffers
C16_OverviewOrder ==
    Returned =>
        /\ \A j \in 1..Len(trace) :
              trace[j][1] = "post_export_callback" => FirstAt("save_gltf") < j
        /\ FirstAt("fix_json") < FirstAt("finalize_buffer")

\* C16: in a run of save() that returns, every registered post-export
\* callback has run, each before save_gltf, and the buffers are finalized
\* before the document is canonicalized
C16_SaveOrder ==
    Returned =>
        /\ Count("post_export_callback") = Len(post_export_callbacks)
        /\ \A j \in 1..Len(trace) :
              trace[j][1] = "post_export_callback" => j < FirstAt("save_gltf")
        /\ FirstAt("finalize_buffer") < FirstAt("fix_json")
        /\ FirstAt("fix_json") < FirstAt("save_gltf")

C16_Witness ==
    /\ Returned
    /\ Len(post_export_callbacks) = 1
    /\ Count("post_export_callback") = 1
    /\ FirstAt("post_export_callback") + 1 = FirstAt("save_gltf")

FrameSets(events) == Len(SelectSeq(events, LAMBDA e : e[1] = "frame_set"))

\* C17: when the settings at entry do not ask for the current frame, the
\* timeline is at frame 0 from the first pre-export callback until the
\* gatherer has returned and the post-gather hook is called; save() writes
\* the timeline only in its entry and in its last step, and only when the
\* settings it reads there do not ask for the current frame, so a run whose
\* settings ask for the current frame at entry and still do at the end
\* makes no timeline write
C17_FrameZeroWhileGathering ==
    /\ [](~current_frame_at_entry
            /\ pc \in {"pre_export_callback", "gather", "gather_gltf_hook"}
          => frame = 0 /\ trace[1] = Ev("frame_set", 0) /\ FrameSets(trace) = 1)
    /\ [](current_frame_at_entry /\ pc \notin {"save", "FINISHED"}
          => FrameSets(trace) = 0 /\ frame = original_frame)
    /\ [](current_frame_at_entry /\ Returned /\ export_settings.gltf_current_frame
          => FrameSets(trace) = 0 /\ frame = original_frame)
    /\ [][FrameSets(trace') # FrameSets(trace) \/ frame' # frame
          => /\ pc \in {"save", "notify_end"}
             /\ ~export_settings.gltf_current_frame
             /\ export_settings' = export_settings]_vars

C17_Witness ==
    /\ ~current_frame_at_entry
    /\ original_frame = 1
    /\ pc = "gather_gltf_hook"
    /\ Count("pre_export_callback") = 2
    /\ export_settings.gltf_current_frame
    /\ frame = 0

\* the timeline was forced to frame 0 at entry
Forced == trace # <<>> /\ trace[1] = Ev("frame_set", 0) /\ ~current_frame_at_entry
\* the restores of the captured position: the timeline writes after the end
\* notification
Restores ==
    Cardinality({j \in 1..Len(trace) :
                    trace[j][1] = "frame_set" /\ Count("notify_end") = 1
                      /\ FirstAt("notify_end") < j})

\* C18: in a run of save() that returns, the captured timeline position is
\* restored exactly once if the timeline was forced to frame 0 at entry, and
\* not at all if it was not, whatever the callbacks and hooks did to
\* gltf_current_frame in between
C18_RestoreIffForced ==
    Returned => Restores = (IF Forced THEN 1 ELSE 0)

Errors == SelectSeq(log, LAMBDA e : e[1] = "ERROR")

\* C19: when save_gltf raises, save() raises an exception of the same class
\* and nothing is written; for an AssertionError the log then holds, at ERROR
\* level, one line per traceback entry with its line number and statement,
\* in order, followed by the message; for any other class it holds no ERROR
\* line
C19_AssertionLogged ==
    raised = "save_gltf" =>
        /\ pc = "raised"
        /\ ~written
        /\ exc \in {"AssertionError", "Exception"}
        /\ exc = "AssertionError" =>
              /\ tb_info # <<>>
              /\ Errors = [j \in 1..Len(tb_info) |->
                              <<"ERROR", "An error occurred on line "
                                           \o ToString(tb_info[j].line)
                                           \o " in statement " \o tb_info[j].text>>]
                            \o <<<<"ERROR", "str(e)">>>>
        /\ exc = "Exception" => Errors = <<>> /\ tb_info = <<>>

C19_Witness ==
    /\ raised = "save_gltf"
    /\ exc = "AssertionError"
    /\ Len(tb_info) = 2
    /\ log = <<<<"INFO", "Starting glTF 2.0 export">>,
               <<"ERROR", "An error occurred on line 10 in statement assert ok">>,
               <<"ERROR", "An error occurred on line 20 in statement assert ok">>,
               <<"ERROR", "str(e)">>>>

(***************************************************************************)
(* __fix_json on its own.                                                  *)
(***************************************************************************)
\* no export runs while a document is canonicalized on its own
InitSaveIdle ==
    /\ frame = 0
    /\ mode = "NONE"
    /\ export_settings = [gltf_current_frame |-> FALSE, gltf_format |-> "GLB",
                          gltf_draco_mesh_compression |-> FALSE,
                          gltf_use_gltfpack |-> FALSE]
    /\ pre_export_callbacks = <<>>
    /\ post_export_callbacks = <<>>
    /\ gathered = [scenes |-> Scenes(1), active_scene_idx |-> 0]
    /\ hook_edit = "keep"
    /\ gltfpack_settings = DefaultPackSettings
    /\ pc = "idle"
    /\ i = 1
    /\ original_frame = 0
    /\ glTF = None
    /\ json = None
    /\ finalize_calls = <<>>
    /\ written = FALSE
    /\ raised = "none"
    /\ exc = "none"
    /\ log = <<>>
    /\ trace = <<>>
    /\ current_frame_at_entry = FALSE
    /\ save_format = "none"
    /\ tb_info = <<>>
    /\ scenes = <<>>
    /\ active_scene_idx = 0
    /\ added_scenes = <<>>
    /\ argv = <<>>

InitFix == /\ InitSaveIdle
           /\ obj \in Leaves
           /\ fixed = None
           /\ refixed = None
           /\ fpc = "input"

\* the document gets one more field or element before it is canonicalized
AddField == /\ fpc = "input"
            /\ Size(obj) < MaxNodes
            /\ obj' \in Extensions(obj)
            /\ UNCHANGED <<fixed, refixed, fpc>>
            /\ UNCHANGED savevars

\* json = __fix_json(exporter.glTF.to_dict())
FixOnce == /\ fpc = "input"
           /\ fixed' = fix_json(obj)
           /\ fpc' = "fixed"
           /\ UNCHANGED <<obj, refixed>>
           /\ UNCHANGED savevars

\* __fix_json applied to its own result
FixAgain == /\ fpc = "fixed"
            /\ refixed' = fix_json(fixed)
            /\ fpc' = "refixed"
            /\ UNCHANGED <<obj, fixed>>
            /\ UNCHANGED savevars

NextFix == AddField \/ FixOnce \/ FixAgain

SpecFix == InitFix /\ [][NextFix]_vars

(***************************************************************************)
(* Places of a document.  A path is a sequence of steps [k, i]: a key k of *)
(* a dict (i = 0) or an index i of a list (k = "").  __fix_json keeps keys *)
(* and list indices, so a value and its image have the same path.          *)
(***************************************************************************)
KeyStep(key) == [k |-> key, i |-> 0]
IndexStep(idx) == [k |-> "", i |-> idx]

ValueOf(node, key) == node.c[CHOOSE j \in 1..Len(node.c) : node.c[j].k = key].x

HasChild(node, step) ==
    IF step.i = 0 THEN node.t = "dict" /\ step.k \in KeysOf(node)
    ELSE node.t = "list" /\ step.i <= Len(node.c)
ChildAt(node, step) ==
    IF step.i = 0 THEN ValueOf(node, step.k) ELSE node.c[step.i].x

RECURSIVE HasPath(_, _), At(_, _), PathsOf(_)
HasPath(node, p) ==
    \/ p = <<>>
    \/ HasChild(node, Head(p)) /\ HasPath(ChildAt(node, Head(p)), Tail(p))
At(node, p) == IF p = <<>> THEN node ELSE At(ChildAt(node, Head(p)), Tail(p))
PathsOf(node) ==
    {<<>>} \cup UNION {
        LET step == IF node.t = "dict" THEN KeyStep(node.c[j].k) ELSE IndexStep(j)
        IN  {<<step>> \o q : q \in PathsOf(node.c[j].x)} : j \in 1..Len(node.c)}

IsScalar(node) == node.t \notin {"dict", "list"}
IsEmpty(node) == node.t \in {"dict", "list"} /\ node.c = <<>>

\* the value at p is, or lies below, a non-null extras value of the document
InExtras(doc, p) ==
    \E j \in 1..Len(p) : p[j] = KeyStep("extras") /\ At(doc, SubSeq(p, 1, j)) # None

\* the mappings of the document that lie in no extras subtree
MappingPaths(doc) == {p \in PathsOf(doc) : At(doc, p).t = "dict"}
OwnMappingPaths(doc) == {p \in MappingPaths(doc) : ~InExtras(doc, p)}

\* the image of the place p holds the key with this value
Holds(p, key, value) ==
    /\ HasPath(fixed, p)
    /\ At(fixed, p).t = "dict"
    /\ key \in KeysOf(At(fixed, p))
    /\ ValueOf(At(fixed, p), key) = value
\* the image of the place p is a mapping without the key
Lacks(p, key) ==
    /\ HasPath(fixed, p)
    /\ At(fixed, p).t = "dict"
    /\ key \notin KeysOf(At(fixed, p))

Fixed == fpc # "input"

\* C3: __fix_json(__fix_json(x)) equals __fix_json(x) for every document tree x
C3_Idempotent == fpc = "refixed" => refixed = fixed

C5_EmptyRemovedButAllowList ==
    Fixed => \A p \in MappingPaths(obj) : \A key \in KeysOf(At(obj, p)) :
                LET value == ValueOf(At(obj, p), key)
                IN  IsEmpty(value) =>
                        IF key = "KHR_materials_unlit" THEN Holds(p, key, value)
                        ELSE Lacks(p, key)

\* C5 amended: in every mapping outside an extras subtree, a key whose value
\* is an empty mapping or sequence is absent from the output unless it is
\* KHR_materials_unlit or extras, which are present with the empty value; a
\* mapping inside an extras subtree keeps its empty entries
C5_EmptyRemoved ==
    Fixed => \A p \in MappingPaths(obj) : \A key \in KeysOf(At(obj, p)) :
                LET value == ValueOf(At(obj, p), key)
                IN  IsEmpty(value) =>
                        IF key \in {"KHR_materials_unlit", "extras"} \/ InExtras(obj, p)
                        THEN Holds(p, key, value)
                        ELSE Lacks(p, key)

C5_Witness ==
    /\ fpc = "fixed"
    /\ obj = DictVal(<<Entry("name", DictVal(<<>>)),
                       Entry("KHR_materials_unlit", DictVal(<<>>)),
                       Entry("extras", ListVal(<<>>))>>)
    /\ fixed = DictVal(<<Entry("KHR_materials_unlit", DictVal(<<>>)),
                         Entry("extras", ListVal(<<>>))>>)

\* the image of a scalar: an integral float as the int of its value
IntOfFloat(node) == IF node.t = "float" /\ node.n % 2 = 0 THEN IntVal(node.n \div 2) ELSE node
\* the scalar at p is a null entry of a mapping
IsNullEntry(doc, p) == At(doc, p) = None /\ p # <<>> /\ p[Len(p)].i = 0

\* C6 as stated: every float of the document is emitted as the int of its
\* value if it is integral and unchanged if not, every other scalar unchanged
\* (a null entry of a mapping, which C4 is about, is left aside)
C6_FloatsEverywhere ==
    Fixed => \A p \in PathsOf(obj) :
                IsScalar(At(obj, p)) /\ ~IsNullEntry(obj, p) =>
                    HasPath(fixed, p) /\ At(fixed, p) = IntOfFloat(At(obj, p))

\* C6 amended: outside an extras subtree every float is emitted as the int of
\* its value if it is integral and unchanged if not, and every other scalar
\* but a null entry of a mapping is unchanged; inside a non-null extras value
\* every scalar is unchanged, an integral float too
C6_FloatsOutsideExtras ==
    Fixed => \A p \in PathsOf(obj) :
                IsScalar(At(obj, p)) /\ ~IsNullEntry(obj, p) =>
                    /\ HasPath(fixed, p)
                    /\ At(fixed, p) = IF InExtras(obj, p) THEN At(obj, p)
                                      ELSE IntOfFloat(At(obj, p))

C6_Witness ==
    /\ fpc = "fixed"
    /\ obj = DictVal(<<Entry("name", ListVal(<<Entry("", FloatVal(10)),
                                              Entry("", FloatVal(11))>>))>>)
    /\ fixed = DictVal(<<Entry("name", ListVal(<<Entry("", IntVal(5)),
                                                Entry("", FloatVal(11))>>))>>)

====
